---- MODULE Spec2Model ----
(***************************************************************************)
(* A model of the tileable routing-resource-graph builder                  *)
(* (rr_graph_tileable_builder.c) and of the routing multiplexer bitstream  *)
(* builder (build_mux_bitstream).                                          *)
(*                                                                         *)
(* Four specifications share the variables below, one per subsystem:       *)
(*   SpecAlloc  get_num_tracks_per_seg_type, build_unidir_chan_node_details *)
(*   SpecMux    find_mux_default_path_id, build_(cmos_)mux_bitstream        *)
(*   SpecCensus estimate_num_rr_nodes_per_type                              *)
(*   SpecBuild  build_tileable_unidir_rr_graph                              *)
(* Indices (imax, itrack, cur_track, ix, iy) are 0-based as in the source;  *)
(* a sequence is indexed with index + 1.                                    *)
(***************************************************************************)
EXTENDS Integers, Sequences, FiniteSets, TLC

\* ------------------------------------------------------------------------
\* Bounds of the model
\* ------------------------------------------------------------------------
MaxSegTypes == 2

MaxSegLength == 3

MaxFreq == 2

MaxChanWidth == 6

MaxFallbackLength == 2

VARIABLES
  pc,                  \* position of the running call
  fatal,               \* why the run ended, "none" while it runs
  caller,              \* who called the allocator: "none" or "chan"
  segment_inf,         \* the segment catalog: <<[length, frequency, longline]>>
  alloc_width,         \* get_num_tracks_per_seg_type: chan_width
  use_full_seg_groups, \* get_num_tracks_per_seg_type: use_full_seg_groups
  result, demand, assigned, size, imax,   \* its locals
  oob,                 \* an out-of-range vector access has happened
  chan_width,          \* build_unidir_chan_node_details: chan_width
  max_seg_length, device_side,
  num_tracks, cur_track,
  chan_node_details,   \* the ChanNodeDetails being built
  \* build_mux_bitstream
  mux_model,           \* the circuit model: [design_tech, add_const_input]
  mux_size, path_id,   \* the arguments
  mux_lib,             \* the library's graph of (mux_model, implemented size):
                       \* [present, num_outputs]
  lib_consulted,       \* mux_lib has been looked up
  implemented_mux_size, datapath_id,
  cmos_bitstream,      \* what build_cmos_mux_bitstream returned
  mux_bitstream,       \* what build_mux_bitstream returned
  returned,            \* which of "cmos" (the encoder) and "mux" have returned
  default_path_id,     \* what a direct find_mux_default_path_id returned
  \* build_tileable_unidir_rr_graph
  L_nx, L_ny,          \* the arguments
  ix, iy,              \* the counters of the running grid loop
  visited,             \* the cells <<ix, iy>> line 512 has copied, in order
  grids_assigned,      \* the cells of the local grids that have been assigned
  num_rr_nodes_per_type, \* the census result
  rr_node,             \* rr_graph.rr_node: [allocated, size]
  num_rr_nodes,        \* rr_graph.num_rr_nodes
  alloc_count,         \* how many times the node storage has been allocated
  Warnings,            \* *Warnings, as the set of its flags
  Fc_clipped,          \* the local Fc_clipped
  fc_reports,          \* what the Fc computations reported: [fc_in, fc_out]
  \* estimate_num_rr_nodes_per_type
  device_size,         \* [x, y]; the local grids have that many columns, rows
  cell,                \* the cell of grids the pin loop looked at last:
                       \* [x, y, type, offset]
  grid_type,           \* the type of that cell in the global grid
  io_side,             \* the io_side of that cell
  added,               \* the pins counted for it: [opin, ipin]
  device_chan_width,   \* the channel widths: <<X, Y>>
  chan_details         \* the six representative channels

allocVars == <<caller, segment_inf, alloc_width, use_full_seg_groups,
               result, demand, assigned, size, imax, oob>>

chanVars == <<chan_width, max_seg_length, device_side, num_tracks, cur_track,
              chan_node_details>>

buildVars == <<L_nx, L_ny, ix, iy, visited, grids_assigned,
               num_rr_nodes_per_type, rr_node, num_rr_nodes, alloc_count,
               Warnings, Fc_clipped, fc_reports>>

censusVars == <<device_size, cell, grid_type, io_side, added,
                device_chan_width, chan_details>>

muxVars == <<mux_model, mux_size, path_id, mux_lib, lib_consulted,
             implemented_mux_size, datapath_id, cmos_bitstream, mux_bitstream,
             returned, default_path_id>>

\* ------------------------------------------------------------------------
\* Helpers
\* ------------------------------------------------------------------------
RECURSIVE SumSeq(_)
SumSeq(s) == IF s = <<>> THEN 0 ELSE Head(s) + SumSeq(Tail(s))

Abs(x) == IF x < 0 THEN 0 - x ELSE x

MaxOf(a, b) == IF a > b THEN a ELSE b

\* ------------------------------------------------------------------------
\* The inputs
\* ------------------------------------------------------------------------
SegmentInf == [length : 1..MaxSegLength, frequency : 1..MaxFreq, longline : BOOLEAN]

SegmentLists == UNION {[1..n -> SegmentInf] : n \in 0..MaxSegTypes}

Sides == {"TOP", "RIGHT", "BOTTOM", "LEFT", "NUM_SIDES", "INVALID"}

\* ------------------------------------------------------------------------
\* get_num_tracks_per_seg_type
\* ------------------------------------------------------------------------
RECURSIVE SegScale(_)
SegScale(segs) ==
  IF segs = <<>> THEN 1 ELSE Head(segs).length * SegScale(Tail(segs))

RECURSIVE FreqSum(_)
FreqSum(segs) ==
  IF segs = <<>> THEN 0 ELSE Head(segs).frequency + FreqSum(Tail(segs))

\* A variant that leaves the frequencies out of the amount subtracted
Reduce_ScaleOnly(segs) == SegScale(segs)

Reduce(segs) == SegScale(segs) * FreqSum(segs)

InitDemand(W, segs, full) ==
  [iseg \in 1..Len(segs) |->
     IF full
       THEN (SegScale(segs) * W * segs[iseg].frequency) \div segs[iseg].length
       ELSE SegScale(segs) * W * segs[iseg].frequency]

\* A variant of the scan in which the last type seen wins a tie
RECURSIVE FindMaxDemand_LastWins(_, _, _, _)
FindMaxDemand_LastWins(dem, iseg, max, im) ==
  IF iseg >= Len(dem) THEN im
  ELSE FindMaxDemand_LastWins(dem, iseg + 1, MaxOf(dem[iseg + 1], max),
                              IF dem[iseg + 1] >= max THEN iseg ELSE im)

\* The scan for the maximum demand: imax is only overwritten, never reset.
RECURSIVE FindMaxDemand(_, _, _, _)
FindMaxDemand(dem, iseg, max, im) ==
  IF iseg >= Len(dem) THEN im
  ELSE FindMaxDemand(dem, iseg + 1, MaxOf(dem[iseg + 1], max),
                     IF dem[iseg + 1] > max THEN iseg ELSE im)

\* A variant that assigns a full group whatever use_full_seg_groups says
GroupSize_AlwaysLength(segs, full, im) == segs[im + 1].length

GroupSize(segs, full, im) == IF full THEN segs[im + 1].length ELSE 1

\* One iteration of the assignment loop on the locals st.
AssignStep(st, segs, full) ==
  LET im == FindMaxDemand(st.demand, 0, 0, st.imax)
      sz == GroupSize(segs, full, im)
  IN [result   |-> [st.result EXCEPT ![im + 1] = @ + sz],
      demand   |-> [st.demand EXCEPT ![im + 1] = @ - Reduce(segs)],
      assigned |-> st.assigned + sz,
      size     |-> sz,
      imax     |-> im]

\* A variant that compares with >= where line 130 compares with >
UndoFires_AtHalf(W, asg, sz) == (asg - W) >= (sz \div 2)

\* Line 130
UndoFires(W, asg, sz) == (asg - W) > (sz \div 2)

UndoLast(st, W) ==
  IF UndoFires(W, st.assigned, st.size)
    THEN [st EXCEPT !.result = [st.result EXCEPT ![st.imax + 1] = @ - st.size]]
    ELSE st

\* Lines 78-111: the locals when the loop is first reached
AllocStart(W, segs, full) ==
  [result   |-> [iseg \in 1..Len(segs) |-> 0],
   demand   |-> InitDemand(W, segs, full),
   assigned |-> 0,
   size     |-> 0,
   imax     |-> 0]

\* Lines 112-127: the loop, on a non-empty catalog
RECURSIVE AllocLoop(_, _, _, _)
AllocLoop(st, W, segs, full) ==
  IF st.assigned < W THEN AllocLoop(AssignStep(st, segs, full), W, segs, full)
  ELSE st

\* The vector the function returns, on a non-empty catalog
get_num_tracks_per_seg_type(W, segs, full) ==
  UndoLast(AllocLoop(AllocStart(W, segs, full), W, segs, full), W).result

AllocLocals == [result |-> result, demand |-> demand, assigned |-> assigned,
                size |-> size, imax |-> imax]

vars == <<pc, fatal, allocVars, chanVars, muxVars, buildVars, censusVars>>

nonAllocVars == <<muxVars, buildVars, censusVars>>

nonMuxVars == <<allocVars, chanVars, buildVars, censusVars>>

nonBuildVars == <<allocVars, chanVars, muxVars, censusVars>>

\* What the census leaves alone, but for segment_inf, ix, iy and the counts
nonCensusVars == <<caller, alloc_width, use_full_seg_groups, result, demand,
                   assigned, size, imax, oob, chanVars, muxVars, L_nx, L_ny,
                   visited, grids_assigned, rr_node, num_rr_nodes, alloc_count,
                   Warnings, Fc_clipped, fc_reports>>

\* The node categories, in the order of the enumeration (line 345)
RRTypes == <<"SOURCE", "SINK", "IPIN", "OPIN", "CHANX", "CHANY",
             "INTRA_CLUSTER_EDGE">>

NUM_RR_TYPES == Len(RRTypes)

NoNodes == [i \in 1..NUM_RR_TYPES |-> 0]

\* The variables of build_tileable_unidir_rr_graph while it does not run
BuildIdle ==
  /\ L_nx = 0
  /\ L_ny = 0
  /\ ix = 0
  /\ iy = 0
  /\ visited = <<>>
  /\ grids_assigned = {}
  /\ num_rr_nodes_per_type = NoNodes
  /\ rr_node = [allocated |-> FALSE, size |-> 0]
  /\ num_rr_nodes = 0
  /\ alloc_count = 0
  /\ Warnings = {}
  /\ Fc_clipped = FALSE
  /\ fc_reports = [fc_in |-> FALSE, fc_out |-> FALSE]

NoCell == [x |-> 0, y |-> 0, type |-> "EMPTY_TYPE", offset |-> 0]

NoChannels == [left_chanx |-> <<>>, right_chanx |-> <<>>, core_chanx |-> <<>>,
               top_chany |-> <<>>, bottom_chany |-> <<>>, core_chany |-> <<>>]

\* The variables of estimate_num_rr_nodes_per_type while it does not run
CensusIdle ==
  /\ device_size = [x |-> 2, y |-> 2]
  /\ cell = NoCell
  /\ grid_type = "EMPTY_TYPE"
  /\ io_side = "NUM_SIDES"
  /\ added = [opin |-> 0, ipin |-> 0]
  /\ device_chan_width = <<0, 0>>
  /\ chan_details = NoChannels

\* The variables of build_mux_bitstream while no multiplexer call runs
MuxIdle ==
  /\ mux_model = [design_tech |-> "SPICE_MODEL_DESIGN_CMOS", add_const_input |-> FALSE]
  /\ mux_size = 1
  /\ path_id = 0
  /\ mux_lib = [present |-> TRUE, num_outputs |-> 1]
  /\ lib_consulted = FALSE
  /\ implemented_mux_size = 0
  /\ datapath_id = 0
  /\ cmos_bitstream = <<>>
  /\ mux_bitstream = <<>>
  /\ returned = {}
  /\ default_path_id = 0

\* Direct call: get_num_tracks_per_seg_type(W, segment_inf, full).  The
\* allocator never reads longline, so direct calls are enumerated on the
\* catalogs that leave it FALSE.
CallAlloc ==
  /\ UNCHANGED nonAllocVars
  /\ pc = "idle"
  /\ \A i \in 1..Len(segment_inf) : ~segment_inf[i].longline
  /\ \E W \in 0..MaxChanWidth, full \in BOOLEAN :
       /\ alloc_width' = W
       /\ use_full_seg_groups' = full
  /\ caller' = "direct"
  /\ pc' = "alloc_enter"
  /\ UNCHANGED <<fatal, segment_inf, result, demand, assigned, size, imax, oob,
                 chanVars>>

\* Lines 78-111: resize both vectors, scale, freq_sum, demands, zeroed locals.
AllocEnter ==
  /\ UNCHANGED nonAllocVars
  /\ pc = "alloc_enter"
  /\ LET st == AllocStart(alloc_width, segment_inf, use_full_seg_groups) IN
       /\ result' = st.result
       /\ demand' = st.demand
       /\ assigned' = st.assigned
       /\ size' = st.size
       /\ imax' = st.imax
  /\ pc' = "alloc_loop"
  /\ UNCHANGED <<fatal, caller, segment_inf, alloc_width, use_full_seg_groups,
                 oob, chanVars>>

\* Lines 112-127, one iteration, on a non-empty catalog.
AllocAssign ==
  /\ UNCHANGED nonAllocVars
  /\ pc = "alloc_loop"
  /\ assigned < alloc_width
  /\ Len(segment_inf) > 0
  /\ LET st == AssignStep(AllocLocals, segment_inf, use_full_seg_groups) IN
       /\ result' = st.result
       /\ demand' = st.demand
       /\ assigned' = st.assigned
       /\ size' = st.size
       /\ imax' = st.imax
  /\ UNCHANGED <<pc, fatal, caller, segment_inf, alloc_width,
                 use_full_seg_groups, oob, chanVars>>

\* Lines 112-127 on an empty catalog: the scan leaves imax = 0 and
\* segment_inf[0], demand[0], result[0] are accesses outside empty vectors.
\* The run either dies there or goes on with whatever it read as the length.
AllocAssignOutOfRange ==
  /\ UNCHANGED nonAllocVars
  /\ pc = "alloc_loop"
  /\ assigned < alloc_width
  /\ Len(segment_inf) = 0
  /\ oob' = TRUE
  /\ \/ /\ pc' = "crashed"
        /\ UNCHANGED <<assigned, size>>
     \/ /\ \E garbage \in 1..MaxSegLength :
             size' = IF use_full_seg_groups THEN garbage ELSE 1
        /\ assigned' = assigned + size'
        /\ pc' = pc
  /\ UNCHANGED <<fatal, caller, segment_inf, alloc_width, use_full_seg_groups,
                 result, demand, imax, chanVars>>

\* Lines 129-134: the undo step and the return (to the channel builder's
\* line 210 when it is the caller).
AllocFinish ==
  /\ UNCHANGED nonAllocVars
  /\ pc = "alloc_loop"
  /\ assigned >= alloc_width
  /\ IF Len(result) = 0
       THEN /\ result' = result
            /\ oob' = (oob \/ UndoFires(alloc_width, assigned, size))
       ELSE /\ result' = UndoLast(AllocLocals, alloc_width).result
            /\ oob' = oob
  /\ IF caller = "chan"
       THEN /\ num_tracks' = result'
            /\ pc' = "chan_tracks"
       ELSE /\ num_tracks' = num_tracks
            /\ pc' = "alloc_done"
  /\ UNCHANGED <<fatal, caller, segment_inf, alloc_width, use_full_seg_groups,
                 demand, assigned, size, imax, chan_width, max_seg_length,
                 device_side, cur_track, chan_node_details>>

\* ------------------------------------------------------------------------
\* ChanNodeDetails (chan_node_details.h)
\* ------------------------------------------------------------------------
add_track(details, track_node_id, track_direction, seg_length, is_start, is_end) ==
  Append(details, [node_id |-> track_node_id, direction |-> track_direction,
                   seg_length |-> seg_length, start |-> is_start, end |-> is_end])

set_tracks_start(details, track_direction) ==
  [i \in 1..Len(details) |->
     IF details[i].direction = track_direction
       THEN [details[i] EXCEPT !.start = TRUE, !.end = FALSE]
       ELSE details[i]]

set_tracks_end(details, track_direction) ==
  [i \in 1..Len(details) |->
     IF details[i].direction = track_direction
       THEN [details[i] EXCEPT !.end = TRUE, !.start = FALSE]
       ELSE details[i]]

get_num_starting_tracks(details) ==
  Cardinality({i \in 1..Len(details) : details[i].start})

\* ------------------------------------------------------------------------
\* build_unidir_chan_node_details
\* ------------------------------------------------------------------------
RoundUpEven(w) == IF w % 2 # 0 THEN w + 1 ELSE w

\* A variant that forgets the longline override of lines 217-219
EffectiveLength_Declared(seg, max_len) == seg.length

\* Lines 216-219
EffectiveLength(seg, max_len) == IF seg.longline THEN max_len ELSE seg.length

\* itrack % seg_len; with seg_len = 0 a build that does not trap leaves itrack.
Remainder(itrack, seg_len) == IF seg_len = 0 THEN itrack ELSE itrack % seg_len

\* Lines 221-225
SegStart(itrack, seg_len) == (0 = Remainder(itrack, seg_len))

\* Lines 220-233: the pairs of one segment type
RECURSIVE AddTypeTracks(_, _, _, _)
AddTypeTracks(details, seg_len, n, itrack) ==
  IF itrack >= n THEN details
  ELSE LET seg_start == SegStart(itrack, seg_len)
           cur == Len(details)
           inc == add_track(details, cur, "INC_DIRECTION", seg_len, seg_start, FALSE)
           dec == add_track(inc, cur + 1, "DEC_DIRECTION", seg_len, seg_start, FALSE)
       IN AddTypeTracks(dec, seg_len, n, itrack + 1)

\* Lines 213-234: all segment types in catalog order
RECURSIVE AddAllTracks(_, _, _, _, _)
AddAllTracks(details, iseg, segs, ntracks, max_len) ==
  IF iseg >= Len(segs) THEN details
  ELSE AddAllTracks(
         AddTypeTracks(details, EffectiveLength(segs[iseg + 1], max_len),
                       ntracks[iseg + 1], 0),
         iseg + 1, segs, ntracks, max_len)

\* Some executed itrack % seg_len has seg_len = 0
DividesByZero(segs, ntracks, max_len) ==
  \E i \in 1..Len(segs) :
     EffectiveLength(segs[i], max_len) = 0 /\ ntracks[i] > 0

\* A variant whose TOP/RIGHT case does what the BOTTOM/LEFT case should
BorderOverride_Swapped(details, side) ==
  CASE side \in {"TOP", "RIGHT", "BOTTOM", "LEFT"} ->
         set_tracks_end(set_tracks_start(details, "INC_DIRECTION"), "DEC_DIRECTION")
    [] OTHER -> details

\* Lines 238-261; "abort" stands for the exit(1) of the default branch
BorderOverride(details, side) ==
  CASE side \in {"TOP", "RIGHT"} ->
         set_tracks_start(set_tracks_end(details, "INC_DIRECTION"), "DEC_DIRECTION")
    [] side \in {"BOTTOM", "LEFT"} ->
         set_tracks_end(set_tracks_start(details, "INC_DIRECTION"), "DEC_DIRECTION")
    [] OTHER -> details

\* Lines 195-210: round the width, return on zero, call the allocator.
\* The arguments max_seg_length and device_side are drawn where the function
\* first reads them (lines 218 and 239).
CallChan ==
  /\ UNCHANGED nonAllocVars
  /\ pc = "idle"
  /\ \E w \in 0..MaxChanWidth : chan_width' = RoundUpEven(w)
  /\ chan_node_details' = <<>>
  /\ caller' = "chan"
  /\ IF chan_width' = 0
       THEN /\ pc' = "chan_done"
            /\ UNCHANGED <<alloc_width, use_full_seg_groups>>
       ELSE /\ alloc_width' = chan_width' \div 2
            /\ use_full_seg_groups' = TRUE
            /\ pc' = "alloc_enter"
  /\ UNCHANGED <<fatal, segment_inf, result, demand, assigned, size, imax, oob,
                 max_seg_length, device_side, num_tracks, cur_track>>

\* Lines 212-234
ChanAddTracks ==
  /\ UNCHANGED nonAllocVars
  /\ pc = "chan_tracks"
  /\ \E ml \in 0..MaxFallbackLength : max_seg_length' = ml
  /\ \/ /\ chan_node_details' =
             AddAllTracks(<<>>, 0, segment_inf, num_tracks, max_seg_length')
        /\ cur_track' = Len(chan_node_details')
        /\ pc' = "chan_assert"
     \/ /\ DividesByZero(segment_inf, num_tracks, max_seg_length')
        /\ pc' = "crashed"
        /\ UNCHANGED <<chan_node_details, cur_track>>
  /\ UNCHANGED <<fatal, allocVars, chan_width, device_side, num_tracks>>

\* Line 236
ChanAssert ==
  /\ UNCHANGED nonAllocVars
  /\ pc = "chan_assert"
  /\ IF cur_track = chan_width
       THEN pc' = "chan_side" /\ fatal' = fatal
       ELSE pc' = "abort" /\ fatal' = "assert_cur_track"
  /\ UNCHANGED <<allocVars, chanVars>>

\* Lines 238-263
ChanBorder ==
  /\ UNCHANGED nonAllocVars
  /\ pc = "chan_side"
  /\ \E side \in Sides : device_side' = side
  /\ IF device_side' = "INVALID"
       THEN /\ pc' = "abort"
            /\ fatal' = "invalid_side"
            /\ UNCHANGED chan_node_details
       ELSE /\ pc' = "chan_done"
            /\ fatal' = fatal
            /\ chan_node_details' = BorderOverride(chan_node_details, device_side')
  /\ UNCHANGED <<allocVars, chan_width, max_seg_length, num_tracks, cur_track>>

InitAlloc ==
  /\ pc = "idle"
  /\ fatal = "none"
  /\ caller = "none"
  /\ segment_inf \in SegmentLists
  /\ alloc_width = 0
  /\ use_full_seg_groups = FALSE
  /\ result = <<>>
  /\ demand = <<>>
  /\ assigned = 0
  /\ size = 0
  /\ imax = 0
  /\ oob = FALSE
  /\ chan_width = 0
  /\ max_seg_length = 0
  /\ device_side = "NUM_SIDES"
  /\ num_tracks = <<>>
  /\ cur_track = 0
  /\ chan_node_details = <<>>
  /\ MuxIdle
  /\ BuildIdle
  /\ CensusIdle

NextAlloc ==
  \/ CallAlloc
  \/ AllocEnter
  \/ AllocAssign
  \/ AllocAssignOutOfRange
  \/ AllocFinish
  \/ CallChan
  \/ ChanAddTracks
  \/ ChanAssert
  \/ ChanBorder

SpecAlloc == InitAlloc /\ [][NextAlloc]_vars


\* ------------------------------------------------------------------------
\* build_mux_bitstream: the inputs
\* ------------------------------------------------------------------------
MaxMuxSize == 4

\* 2^SizeTBits stands for the range of size_t
SizeTBits == 8

SizeTModulus == 2 ^ SizeTBits

\* The "use default" request marker and the "first input" sentinel
DEFAULT_PATH_ID == -1

DEFAULT_MUX_PATH_ID == 0

DesignTechs == {"SPICE_MODEL_DESIGN_CMOS", "SPICE_MODEL_DESIGN_RRAM", "OTHER"}

MuxModels == [design_tech : DesignTechs, add_const_input : BOOLEAN]

PathIds == (-2)..(MaxMuxSize + 2)

MuxLibs == [present : BOOLEAN, num_outputs : 1..2]

\* circuit_lib.mux_add_const_input(mux_model)
mux_add_const_input(model) == model.add_const_input

\* ------------------------------------------------------------------------
\* find_mux_default_path_id, lines 26-38
\* ------------------------------------------------------------------------
\* A variant that names the last index of a mux of the given size
find_mux_default_path_id_LastIndex(model, size_) ==
  IF mux_add_const_input(model) THEN size_ - 1 ELSE DEFAULT_MUX_PATH_ID

find_mux_default_path_id(model, size_) ==
  IF mux_add_const_input(model) THEN size_ ELSE DEFAULT_MUX_PATH_ID

\* mux_utils: the number of inputs of the implemented multiplexer
find_mux_implementation_num_inputs(model, size_) ==
  IF mux_add_const_input(model) THEN size_ + 1 ELSE size_

\* Line 64: size_t datapath_id = path_id
ToSizeT(i) == i % SizeTModulus

\* A variant that checks the request against the implemented size
PathInBounds_Implemented(dp, declared, implemented) == dp < implemented

\* Line 70: VTR_ASSERT(datapath_id < mux_size)
PathInBounds(dp, declared, implemented) == dp < declared

\* MuxGraph: the inputs of an implemented multiplexer are 0 .. size - 1
valid_input_id(implemented, input) == input >= 0 /\ input < implemented

\* MuxGraph::decode_memory_bits: a vector of fixed length per implemented
\* size that encodes the path from the input to the output
decode_memory_bits(implemented, input) ==
  [i \in 1..implemented |-> (i - 1 = input)]

\* A variant of the switch in which the RRAM case lacks its break
TechBranch_NoBreak(tech) ==
  CASE tech = "SPICE_MODEL_DESIGN_CMOS" -> "cmos"
    [] OTHER -> "default"

\* Lines 91-103: the branch the switch takes
TechBranch(tech) ==
  CASE tech = "SPICE_MODEL_DESIGN_CMOS" -> "cmos"
    [] tech = "SPICE_MODEL_DESIGN_RRAM" -> "rram"
    [] OTHER -> "default"

muxInputs == <<mux_model, mux_size, path_id, mux_lib>>

\* A direct call find_mux_default_path_id(circuit_lib, mux_model, mux_size)
CallFindDefault ==
  /\ pc = "idle"
  /\ default_path_id' = find_mux_default_path_id(mux_model, mux_size)
  /\ pc' = "default_done"
  /\ UNCHANGED <<fatal, nonMuxVars, muxInputs, lib_consulted,
                 implemented_mux_size, datapath_id, cmos_bitstream,
                 mux_bitstream, returned>>

\* Lines 89-103: the switch of build_mux_bitstream, up to the call of the
\* CMOS encoder, the return of the empty vector, or the exit(1)
BuildMuxDispatch ==
  /\ pc = "idle"
  /\ LET branch == TechBranch(mux_model.design_tech) IN
       /\ pc' = CASE branch = "cmos" -> "cmos_lookup"
                  [] branch = "rram" -> "mux_done"
                  [] OTHER -> "abort"
       /\ fatal' = IF branch = "default" THEN "invalid_design_tech" ELSE fatal
       /\ mux_bitstream' = <<>>
       /\ returned' = IF branch = "rram" THEN {"mux"} ELSE returned
  /\ UNCHANGED <<nonMuxVars, muxInputs, lib_consulted,
                 implemented_mux_size, datapath_id, cmos_bitstream,
                 default_path_id>>

\* Lines 60-62: the implemented size and the library lookup, fatal when the
\* library holds no graph for it
CmosLookup ==
  /\ pc = "cmos_lookup"
  /\ implemented_mux_size' = find_mux_implementation_num_inputs(mux_model, mux_size)
  /\ lib_consulted' = TRUE
  /\ IF mux_lib.present
       THEN pc' = "cmos_path" /\ fatal' = fatal
       ELSE pc' = "abort" /\ fatal' = "no_mux_graph"
  /\ UNCHANGED <<nonMuxVars, muxInputs, datapath_id, cmos_bitstream,
                 mux_bitstream, returned, default_path_id>>

\* Lines 64-71
CmosResolvePath ==
  /\ pc = "cmos_path"
  /\ IF DEFAULT_PATH_ID = path_id
       THEN /\ datapath_id' = find_mux_default_path_id(mux_model, implemented_mux_size)
            /\ pc' = "cmos_outputs"
            /\ fatal' = fatal
       ELSE /\ datapath_id' = ToSizeT(path_id)
            /\ IF PathInBounds(datapath_id', mux_size, implemented_mux_size)
                 THEN pc' = "cmos_outputs" /\ fatal' = fatal
                 ELSE pc' = "abort" /\ fatal' = "assert_datapath_id"
  /\ UNCHANGED <<nonMuxVars, muxInputs, lib_consulted,
                 implemented_mux_size, cmos_bitstream, mux_bitstream, returned,
                 default_path_id>>

\* Line 74
CmosCheckOutputs ==
  /\ pc = "cmos_outputs"
  /\ IF 1 = mux_lib.num_outputs
       THEN pc' = "cmos_decode" /\ fatal' = fatal
       ELSE pc' = "abort" /\ fatal' = "assert_one_output"
  /\ UNCHANGED <<nonMuxVars, muxVars>>

\* Line 77.  Handed an input the graph does not have, the decoder either
\* ends the run or returns a vector that selects no input.
CmosDecode ==
  /\ pc = "cmos_decode"
  /\ \/ /\ cmos_bitstream' = decode_memory_bits(implemented_mux_size, datapath_id)
        /\ pc' = "cmos_return"
        /\ returned' = returned \cup {"cmos"}
     \/ /\ ~valid_input_id(implemented_mux_size, datapath_id)
        /\ pc' = "crashed"
        /\ UNCHANGED <<cmos_bitstream, returned>>
  /\ UNCHANGED <<fatal, nonMuxVars, muxInputs, lib_consulted,
                 implemented_mux_size, datapath_id, mux_bitstream,
                 default_path_id>>

\* Lines 93-94 and 104: the CMOS encoder's vector is returned
BuildMuxReturn ==
  /\ pc = "cmos_return"
  /\ mux_bitstream' = cmos_bitstream
  /\ returned' = returned \cup {"mux"}
  /\ pc' = "mux_done"
  /\ UNCHANGED <<fatal, nonMuxVars, muxInputs, lib_consulted,
                 implemented_mux_size, datapath_id, cmos_bitstream,
                 default_path_id>>

\* The variables of the allocator and the channel builder while none runs
AllocIdle ==
  /\ caller = "none"
  /\ segment_inf = <<>>
  /\ alloc_width = 0
  /\ use_full_seg_groups = FALSE
  /\ result = <<>>
  /\ demand = <<>>
  /\ assigned = 0
  /\ size = 0
  /\ imax = 0
  /\ oob = FALSE
  /\ chan_width = 0
  /\ max_seg_length = 0
  /\ device_side = "NUM_SIDES"
  /\ num_tracks = <<>>
  /\ cur_track = 0
  /\ chan_node_details = <<>>

InitMux ==
  /\ pc = "idle"
  /\ fatal = "none"
  /\ AllocIdle
  /\ BuildIdle
  /\ CensusIdle
  /\ mux_model \in MuxModels
  /\ mux_size \in 1..MaxMuxSize
  /\ path_id \in PathIds
  /\ mux_lib \in MuxLibs
  /\ lib_consulted = FALSE
  /\ implemented_mux_size = 0
  /\ datapath_id = 0
  /\ cmos_bitstream = <<>>
  /\ mux_bitstream = <<>>
  /\ returned = {}
  /\ default_path_id = 0

NextMux ==
  \/ CallFindDefault
  \/ BuildMuxDispatch
  \/ CmosLookup
  \/ CmosResolvePath
  \/ CmosCheckOutputs
  \/ CmosDecode
  \/ BuildMuxReturn

SpecMux == InitMux /\ [][NextMux]_vars

\* ------------------------------------------------------------------------
\* estimate_num_rr_nodes_per_type: the inputs
\* ------------------------------------------------------------------------
MaxDeviceSize == 3

MaxCensusWidth == 3

\* The largest grid on which the channel phase of the census is run alone
MaxChannelDeviceSize == 5

\* The categories that index num_rr_nodes_per_type (line 345)
SOURCE == 0

SINK == 1

IPIN == 2

OPIN == 3

CHANX == 4

CHANY == 5

TileTypes == {"EMPTY_TYPE", "IO_TYPE", "CLB", "HET"}

PinSides == {"TOP", "RIGHT", "BOTTOM", "LEFT"}

\* The tile types of the architecture: num_pins, height, pin_class[ipin] and
\* the triples <<height, side, ipin>> at which pinloc is 1.  The IO type has
\* a different number of driver pins on each side.
TypeDescriptor(t) ==
  CASE t = "IO_TYPE" ->
         [num_pins |-> 5, height |-> 1,
          pin_class |-> <<"DRIVER", "DRIVER", "DRIVER", "DRIVER", "RECEIVER">>,
          pinloc |-> {<<0, "TOP", 0>>, <<0, "RIGHT", 0>>, <<0, "BOTTOM", 0>>,
                      <<0, "LEFT", 0>>, <<0, "RIGHT", 1>>, <<0, "BOTTOM", 1>>,
                      <<0, "LEFT", 1>>, <<0, "BOTTOM", 2>>, <<0, "LEFT", 2>>,
                      <<0, "LEFT", 3>>, <<0, "TOP", 4>>, <<0, "RIGHT", 4>>,
                      <<0, "BOTTOM", 4>>, <<0, "LEFT", 4>>}]
    [] t = "CLB" ->
         [num_pins |-> 3, height |-> 1,
          pin_class |-> <<"RECEIVER", "RECEIVER", "DRIVER">>,
          pinloc |-> {<<0, "TOP", 0>>, <<0, "BOTTOM", 1>>, <<0, "RIGHT", 2>>}]
    [] t = "HET" ->
         [num_pins |-> 2, height |-> 2,
          pin_class |-> <<"RECEIVER", "DRIVER">>,
          pinloc |-> {<<0, "LEFT", 0>>, <<1, "RIGHT", 1>>}]
    [] OTHER ->
         [num_pins |-> 0, height |-> 1, pin_class |-> <<>>, pinloc |-> {}]

\* The cells a grid can hold: a type and the offset within a tile of it
GridCells ==
  {c \in [type : TileTypes, offset : 0..1] :
     c.offset < TypeDescriptor(c.type).height}

\* The segment catalogs the census is run on
CensusCatalogs ==
  { <<[length |-> 1, frequency |-> 1, longline |-> FALSE]>>,
    <<[length |-> 2, frequency |-> 1, longline |-> FALSE]>>,
    <<[length |-> 1, frequency |-> 1, longline |-> TRUE]>>,
    <<[length |-> 2, frequency |-> 1, longline |-> FALSE],
      [length |-> 1, frequency |-> 2, longline |-> FALSE]>>,
    <<[length |-> 1, frequency |-> 2, longline |-> TRUE],
      [length |-> 1, frequency |-> 1, longline |-> FALSE]>> }

\* ------------------------------------------------------------------------
\* determine_io_grid_pin_side, lines 266-284; "EXIT" stands for the exit(1)
\* ------------------------------------------------------------------------
determine_io_grid_pin_side(dev_size, grid_coordinator) ==
  IF dev_size.y = grid_coordinator.y THEN "BOTTOM"
  ELSE IF dev_size.x = grid_coordinator.x THEN "LEFT"
  ELSE IF 0 = grid_coordinator.y THEN "TOP"
  ELSE IF 0 = grid_coordinator.x THEN "RIGHT"
  ELSE "EXIT"

\* get_grid_side_pins, lines 291-304: the pins in the list
get_grid_side_pins(cur_grid, pin_type, pin_side, pin_height) ==
  LET type == TypeDescriptor(cur_grid.type) IN
  {ipin \in 0..(type.num_pins - 1) :
     /\ <<pin_height, pin_side, ipin>> \in type.pinloc
     /\ pin_type = type.pin_class[ipin + 1]}

\* get_grid_num_pins, lines 311-331
get_grid_num_pins(cur_grid, pin_type, side_) ==
  LET type == TypeDescriptor(cur_grid.type)
      wanted == {sd \in PinSides : ~(cur_grid.type = "IO_TYPE" /\ sd # side_)}
  IN Cardinality({p \in wanted \X (0..(type.height - 1)) \X (0..(type.num_pins - 1)) :
                    p[3] \in get_grid_side_pins(cur_grid, pin_type, p[1], p[2])})

\* get_grid_num_pins tabulated over the cells, pin types and sides the census
\* calls it with (lines 377 and 379)
PinTable ==
  [c \in GridCells, pin_type \in {"DRIVER", "RECEIVER"},
   sd \in PinSides \cup {"NUM_SIDES"} |-> get_grid_num_pins(c, pin_type, sd)]

\* ------------------------------------------------------------------------
\* build_unidir_chan_node_details as the census calls it: the channel it
\* returns, whether the assertion of line 236 fails, whether it divides by 0
\* ------------------------------------------------------------------------
build_unidir_chan_node_details(width, max_len, side, segs) ==
  LET cw == RoundUpEven(width)
      ntracks == get_num_tracks_per_seg_type(cw \div 2, segs, TRUE)
      built == AddAllTracks(<<>>, 0, segs, ntracks, max_len)
  IN IF cw = 0
       THEN [status |-> "ok", div0 |-> FALSE, details |-> <<>>]
       ELSE [status |-> IF Len(built) = cw THEN "ok" ELSE "assert",
             div0 |-> DividesByZero(segs, ntracks, max_len),
             details |-> BorderOverride(built, side)]

\* build_unidir_chan_node_details tabulated over the arguments the census
\* calls it with
ChannelTable ==
  [w \in 0..MaxCensusWidth,
   ml \in 0..(MaxOf(MaxDeviceSize, MaxChannelDeviceSize) - 2),
   sd \in {"LEFT", "RIGHT", "TOP", "BOTTOM", "NUM_SIDES"}, segs \in CensusCatalogs |->
     build_unidir_chan_node_details(w, ml, sd, segs)]

\* A variant whose loops run to size - 1 instead of size - 2
CoreIterations_ToLastColumn(columns, rows) ==
  Cardinality({p \in (1..(columns - 2)) \X (1..(rows - 2)) : TRUE})

\* The number of iterations of the loop nests of lines 414-418 and 433-437
CoreIterations(columns, rows) ==
  Cardinality({p \in (1..(columns - 3)) \X (1..(rows - 3)) : TRUE})

\* Lines 403, 408, 413, 422, 427 and 432: the six representative channels
CensusRepresentatives(dev_size, cw, segs) ==
  [left_chanx   |-> ChannelTable[cw[1], dev_size.x - 2, "LEFT", segs],
   right_chanx  |-> ChannelTable[cw[1], dev_size.x - 2, "RIGHT", segs],
   core_chanx   |-> ChannelTable[cw[2], dev_size.x - 2, "NUM_SIDES", segs],
   top_chany    |-> ChannelTable[cw[2], dev_size.y - 2, "TOP", segs],
   bottom_chany |-> ChannelTable[cw[2], dev_size.y - 2, "BOTTOM", segs],
   core_chany   |-> ChannelTable[cw[2], dev_size.y - 2, "NUM_SIDES", segs]]

\* Lines 404-418: what the three loops add to num_rr_nodes_per_type[CHANX]
ChanxNodes(dev_size, reps) ==
  (dev_size.y - 1) * get_num_starting_tracks(reps.left_chanx.details)
  + (dev_size.y - 1) * get_num_starting_tracks(reps.right_chanx.details)
  + CoreIterations(dev_size.x, dev_size.y)
      * get_num_starting_tracks(reps.core_chanx.details)

\* Lines 423-437: what the three loops add to num_rr_nodes_per_type[CHANY]
ChanyNodes(dev_size, reps) ==
  (dev_size.x - 1) * get_num_starting_tracks(reps.top_chany.details)
  + (dev_size.x - 1) * get_num_starting_tracks(reps.bottom_chany.details)
  + CoreIterations(dev_size.x, dev_size.y)
      * get_num_starting_tracks(reps.core_chany.details)

\* Lines 342-352
CensusEnter ==
  /\ pc = "idle"
  /\ num_rr_nodes_per_type' = NoNodes
  /\ ix' = 0
  /\ iy' = 0
  /\ pc' = "census_pins"
  /\ UNCHANGED <<fatal, segment_inf, nonCensusVars, censusVars>>

\* Lines 360-380: one cell of column ix.  The cell and the type the global
\* grid has there are drawn when the loop reads them.
CensusCell ==
  /\ pc = "census_pins"
  /\ ix < device_size.x
  /\ iy < device_size.y
  /\ \E c \in GridCells, gt \in TileTypes :
       LET skipped == c.type = "EMPTY_TYPE" \/ 0 < c.offset
           side_ == IF gt = "IO_TYPE"
                      THEN determine_io_grid_pin_side(device_size, [x |-> ix, y |-> iy])
                      ELSE "NUM_SIDES"
           counted == IF side_ = "EXIT" THEN "NUM_SIDES" ELSE side_
           opins == PinTable[c, "DRIVER", counted]
           ipins == PinTable[c, "RECEIVER", counted]
       IN /\ cell' = [x |-> ix, y |-> iy, type |-> c.type, offset |-> c.offset]
          /\ grid_type' = gt
          /\ IF skipped
               THEN /\ UNCHANGED <<io_side, num_rr_nodes_per_type, fatal>>
                    /\ added' = [opin |-> 0, ipin |-> 0]
                    /\ iy' = iy + 1
                    /\ pc' = pc
               ELSE IF side_ = "EXIT"
                 THEN /\ pc' = "abort"
                      /\ fatal' = "io_grid_in_center"
                      /\ UNCHANGED <<io_side, num_rr_nodes_per_type, added, iy>>
                 ELSE /\ io_side' = side_
                      /\ added' = [opin |-> opins, ipin |-> ipins]
                      /\ num_rr_nodes_per_type' =
                           [num_rr_nodes_per_type EXCEPT ![OPIN + 1] = @ + opins,
                                                        ![IPIN + 1] = @ + ipins]
                      /\ iy' = iy + 1
                      /\ pc' = pc
                      /\ fatal' = fatal
  /\ UNCHANGED <<ix, segment_inf, nonCensusVars, device_size,
                 device_chan_width, chan_details>>

\* Lines 359-360: column ix is done
CensusNextColumn ==
  /\ pc = "census_pins"
  /\ ix < device_size.x
  /\ iy >= device_size.y
  /\ ix' = ix + 1
  /\ iy' = 0
  /\ UNCHANGED <<pc, fatal, segment_inf, nonCensusVars, censusVars,
                 num_rr_nodes_per_type>>

\* Lines 359 and 382-384: the pin loop is left, its locals with it
CensusSourceSink ==
  /\ pc = "census_pins"
  /\ ix >= device_size.x
  /\ num_rr_nodes_per_type' =
       [num_rr_nodes_per_type EXCEPT ![SOURCE + 1] = num_rr_nodes_per_type[OPIN + 1],
                                    ![SINK + 1] = num_rr_nodes_per_type[IPIN + 1]]
  /\ cell' = NoCell
  /\ grid_type' = "EMPTY_TYPE"
  /\ io_side' = "NUM_SIDES"
  /\ added' = [opin |-> 0, ipin |-> 0]
  /\ pc' = "census_chan"
  /\ UNCHANGED <<fatal, ix, iy, segment_inf, nonCensusVars, device_size,
                 device_chan_width, chan_details>>

\* Lines 401-439: the six representative channels and the CHANX and CHANY
\* totals.  The widths and the catalog are drawn where the function first
\* reads them.  A representative whose assertion fails ends the run; one that
\* divides by zero may end it.
CensusChannels ==
  /\ pc = "census_chan"
  /\ \E segs \in CensusCatalogs, wx \in 0..MaxCensusWidth, wy \in 0..MaxCensusWidth :
       LET cw == <<wx, wy>>
           reps == CensusRepresentatives(device_size, cw, segs)
           all == {reps[r] : r \in DOMAIN reps}
       IN /\ segment_inf' = segs
          /\ device_chan_width' = cw
          /\ \/ /\ \A r \in all : r.status = "ok"
                /\ chan_details' = [r \in DOMAIN reps |-> reps[r].details]
                /\ num_rr_nodes_per_type' =
                     [num_rr_nodes_per_type EXCEPT
                        ![CHANX + 1] = @ + ChanxNodes(device_size, reps),
                        ![CHANY + 1] = @ + ChanyNodes(device_size, reps)]
                /\ pc' = "census_done"
                /\ fatal' = fatal
             \/ /\ \E r \in all : r.status = "assert"
                /\ pc' = "abort"
                /\ fatal' = "assert_cur_track"
                /\ UNCHANGED <<chan_details, num_rr_nodes_per_type>>
             \/ /\ \E r \in all : r.div0
                /\ pc' = "crashed"
                /\ UNCHANGED <<fatal, chan_details, num_rr_nodes_per_type>>
  /\ UNCHANGED <<ix, iy, nonCensusVars, device_size, cell, grid_type, io_side,
                 added>>

InitCensus ==
  /\ pc = "idle"
  /\ fatal = "none"
  /\ AllocIdle
  /\ MuxIdle
  /\ BuildIdle
  /\ device_size \in [x : 2..MaxDeviceSize, y : 2..MaxDeviceSize]
  /\ cell = NoCell
  /\ grid_type = "EMPTY_TYPE"
  /\ io_side = "NUM_SIDES"
  /\ added = [opin |-> 0, ipin |-> 0]
  /\ device_chan_width = <<0, 0>>
  /\ chan_details = NoChannels

NextCensus ==
  \/ CensusEnter
  \/ CensusCell
  \/ CensusNextColumn
  \/ CensusSourceSink
  \/ CensusChannels

SpecCensus == InitCensus /\ [][NextCensus]_vars

\* The channel phase alone: the census of a grid of EMPTY_TYPE cells only,
\* from line 401 on, where the pin loop has skipped every cell and left all
\* counts 0
InitCensusChannels ==
  /\ pc = "census_chan"
  /\ fatal = "none"
  /\ AllocIdle
  /\ MuxIdle
  /\ L_nx = 0
  /\ L_ny = 0
  /\ device_size \in [x : 2..MaxChannelDeviceSize, y : 2..MaxChannelDeviceSize]
  /\ ix = device_size.x
  /\ iy = 0
  /\ visited = <<>>
  /\ grids_assigned = {}
  /\ num_rr_nodes_per_type = NoNodes
  /\ rr_node = [allocated |-> FALSE, size |-> 0]
  /\ num_rr_nodes = 0
  /\ alloc_count = 0
  /\ Warnings = {}
  /\ Fc_clipped = FALSE
  /\ fc_reports = [fc_in |-> FALSE, fc_out |-> FALSE]
  /\ cell = NoCell
  /\ grid_type = "EMPTY_TYPE"
  /\ io_side = "NUM_SIDES"
  /\ added = [opin |-> 0, ipin |-> 0]
  /\ device_chan_width = <<0, 0>>
  /\ chan_details = NoChannels

NextCensusChannels ==
  \/ CensusChannels

SpecCensusChannels == InitCensusChannels /\ [][NextCensusChannels]_vars

\* ------------------------------------------------------------------------
\* build_tileable_unidir_rr_graph
\* ------------------------------------------------------------------------
MaxGridSize == 2

MaxGarbageCount == 1

\* The warning flags: RR_GRAPH_NO_WARN is the empty set
RR_GRAPH_NO_WARN == {}

RR_GRAPH_WARN_FC_CLIPPED == {"FC_CLIPPED"}

\* A variant whose loop stops one category early
TotalNodes_SkipLast(counts) == SumSeq(SubSeq(counts, 1, Len(counts) - 1))

\* Lines 540-543
TotalNodes(counts) == SumSeq(counts)

\* Lines 495-508: the empty graph, the reset of the warnings, the resize of
\* the local grids (whose cells are value-initialised)
BuildEnter ==
  /\ pc = "idle"
  /\ rr_node' = [allocated |-> FALSE, size |-> 0]
  /\ num_rr_nodes' = 0
  /\ Warnings' = RR_GRAPH_NO_WARN
  /\ grids_assigned' = {}
  /\ ix' = 0
  /\ iy' = 0
  /\ pc' = "build_grid"
  /\ UNCHANGED <<fatal, nonBuildVars, L_nx, L_ny, visited,
                 num_rr_nodes_per_type, alloc_count, Fc_clipped, fc_reports>>

\* Lines 509-514, one evaluation of a loop condition with the step it
\* leads to.  The inner loop tests ix, not iy, and line 512 assigns the
\* global grid, not the local grids.  Reading [ix][iy] with iy past the row
\* is undefined: the run dies there, or it goes on past the loop.
BuildGridStep ==
  /\ pc = "build_grid"
  /\ IF ix < L_nx + 2
       THEN IF ix < L_ny + 2
              THEN IF iy < L_ny + 2
                     THEN /\ visited' = Append(visited, <<ix, iy>>)
                          /\ iy' = iy + 1
                          /\ UNCHANGED <<ix, pc, oob>>
                     ELSE /\ oob' = TRUE
                          /\ \E outcome \in {"crashed", "build_census"} :
                               pc' = outcome
                          /\ UNCHANGED <<ix, iy, visited>>
              ELSE /\ ix' = ix + 1
                   /\ iy' = 0
                   /\ UNCHANGED <<visited, pc, oob>>
       ELSE /\ pc' = "build_census"
            /\ UNCHANGED <<ix, iy, visited, oob>>
  /\ UNCHANGED <<fatal, chanVars, muxVars, caller, segment_inf, alloc_width,
                 use_full_seg_groups, result, demand, assigned, size, imax,
                 L_nx, L_ny, grids_assigned, num_rr_nodes_per_type, rr_node,
                 num_rr_nodes, alloc_count, Warnings, Fc_clipped, fc_reports,
                 censusVars>>

\* Lines 516-535: the census on the local grids.  No cell of them has been
\* assigned, so the first cell has a null type, which get_grid_num_pins
\* dereferences (line 324): the run dies there, or the census returns counts
\* read from wherever the null type led.
BuildCensus ==
  /\ pc = "build_census"
  /\ grids_assigned = {}
  /\ \/ /\ pc' = "crashed"
        /\ UNCHANGED num_rr_nodes_per_type
     \/ /\ num_rr_nodes_per_type' \in [1..NUM_RR_TYPES -> 0..MaxGarbageCount]
        /\ pc' = "build_alloc"
  /\ UNCHANGED <<fatal, nonBuildVars, L_nx, L_ny, ix, iy, visited,
                 grids_assigned, rr_node, num_rr_nodes, alloc_count, Warnings,
                 Fc_clipped, fc_reports>>

\* Lines 540-545
BuildAllocate ==
  /\ pc = "build_alloc"
  /\ num_rr_nodes' = TotalNodes(num_rr_nodes_per_type)
  /\ rr_node' = [allocated |-> TRUE, size |-> num_rr_nodes']
  /\ alloc_count' = alloc_count + 1
  /\ pc' = "build_fc_in"
  /\ UNCHANGED <<fatal, nonBuildVars, L_nx, L_ny, ix, iy, visited,
                 grids_assigned, num_rr_nodes_per_type, Warnings, Fc_clipped,
                 fc_reports>>

\* Lines 559-566: alloc_and_load_actual_fc reports through Fc_clipped
BuildFcIn ==
  /\ pc = "build_fc_in"
  /\ \E clipped \in BOOLEAN :
       /\ Fc_clipped' = clipped
       /\ fc_reports' = [fc_reports EXCEPT !.fc_in = clipped]
       /\ Warnings' = IF clipped THEN Warnings \cup RR_GRAPH_WARN_FC_CLIPPED
                      ELSE Warnings
  /\ pc' = "build_fc_out"
  /\ UNCHANGED <<fatal, nonBuildVars, L_nx, L_ny, ix, iy, visited,
                 grids_assigned, num_rr_nodes_per_type, rr_node, num_rr_nodes,
                 alloc_count>>

\* Lines 573-576
BuildFcOut ==
  /\ pc = "build_fc_out"
  /\ \E clipped \in BOOLEAN :
       /\ Fc_clipped' = clipped
       /\ fc_reports' = [fc_reports EXCEPT !.fc_out = clipped]
  /\ pc' = "build_finish"
  /\ UNCHANGED <<fatal, nonBuildVars, L_nx, L_ny, ix, iy, visited,
                 grids_assigned, num_rr_nodes_per_type, rr_node, num_rr_nodes,
                 alloc_count, Warnings>>

\* Lines 596-610: the direct connections, rr_graph_externals, the return
BuildFinish ==
  /\ pc = "build_finish"
  /\ pc' = "build_done"
  /\ UNCHANGED <<fatal, nonBuildVars, buildVars>>

InitBuild ==
  /\ pc = "idle"
  /\ fatal = "none"
  /\ AllocIdle
  /\ MuxIdle
  /\ CensusIdle
  /\ L_nx \in 0..MaxGridSize
  /\ L_ny \in 0..MaxGridSize
  /\ ix = 0
  /\ iy = 0
  /\ visited = <<>>
  /\ grids_assigned = {}
  /\ num_rr_nodes_per_type = NoNodes
  /\ rr_node = [allocated |-> FALSE, size |-> 0]
  /\ num_rr_nodes = 0
  /\ alloc_count = 0
  /\ Warnings \in {RR_GRAPH_NO_WARN, RR_GRAPH_WARN_FC_CLIPPED}
  /\ Fc_clipped = FALSE
  /\ fc_reports = [fc_in |-> FALSE, fc_out |-> FALSE]

NextBuild ==
  \/ BuildEnter
  \/ BuildGridStep
  \/ BuildCensus
  \/ BuildAllocate
  \/ BuildFcIn
  \/ BuildFcOut
  \/ BuildFinish

SpecBuild == InitBuild /\ [][NextBuild]_vars

\* ========================================================================
\* Properties of get_num_tracks_per_seg_type and
\* build_unidir_chan_node_details (SpecAlloc)
\* ========================================================================
\* The allocator has returned (to its direct caller, or to line 210)
AllocReturned == pc \in {"alloc_done", "chan_tracks"}

\* C1: for W > 0 and a non-empty catalog the returned counts are all >= 0 and
\* their sum differs from W by less than the size of the last assigned group,
\* which is the length of the last chosen type under use_full_seg_groups and
\* 1 otherwise.
C1_CountsWithinOneGroup ==
  (AllocReturned /\ alloc_width > 0 /\ Len(segment_inf) > 0) =>
     /\ \A i \in 1..Len(result) : result[i] >= 0
     /\ Len(result) = Len(segment_inf)
     /\ size = (IF use_full_seg_groups THEN segment_inf[imax + 1].length ELSE 1)
     /\ Abs(SumSeq(result) - alloc_width) < size

\* C1 witness: a full-group allocation whose last assignment was undone, so
\* that the sum falls short of W.
C1_Witness ==
  /\ AllocReturned
  /\ alloc_width > 0
  /\ Len(segment_inf) > 0
  /\ use_full_seg_groups
  /\ SumSeq(result) < alloc_width

\* C2: the assertion of line 236 never fails on a non-empty catalog: the
\* number of tracks added equals the width rounded up to even.
C2_TrackCountEqualsWidth ==
  (pc = "chan_assert" /\ Len(segment_inf) > 0) => cur_track = chan_width

\* Offset of the first track of segment type iseg (0-based) in the channel
RunOffset(ntracks, iseg) == 2 * SumSeq(SubSeq(ntracks, 1, iseg))

\* The track list of a channel whose effective lengths are all positive, as
\* build_unidir_chan_node_details has it before the border override and as it
\* returns it for the interior sentinel
InteriorChannelBuilt ==
  /\ \/ pc \in {"chan_assert", "chan_side"}
     \/ pc = "chan_done" /\ device_side = "NUM_SIDES"
  /\ chan_width > 0
  /\ Len(segment_inf) > 0
  /\ \A i \in 1..Len(segment_inf) :
        segment_inf[i].longline => max_seg_length > 0

\* C10: in an interior channel the k-th pair of each segment type is flagged
\* start iff k mod effectiveLength = 0 (the fallback maximum length for a
\* longline type, the declared length otherwise); the increasing track sits at
\* the even index, the decreasing one at the odd index, both carry the same
\* start flag and end = FALSE.
C10_StartEveryEffectiveLength ==
  InteriorChannelBuilt =>
     /\ Len(chan_node_details) = 2 * SumSeq(num_tracks)
     /\ \A i \in 1..Len(segment_inf) : \A k \in 0..(num_tracks[i] - 1) :
          LET L == IF segment_inf[i].longline THEN max_seg_length
                   ELSE segment_inf[i].length
              e == RunOffset(num_tracks, i - 1) + 2 * k
              inc == chan_node_details[e + 1]
              dec == chan_node_details[e + 2]
          IN /\ inc.direction = "INC_DIRECTION" /\ inc.node_id = e
             /\ dec.direction = "DEC_DIRECTION" /\ dec.node_id = e + 1
             /\ inc.start = (k % L = 0)
             /\ dec.start = inc.start
             /\ inc.end = FALSE /\ dec.end = FALSE

\* C10 witness: a returned interior channel with a longline type whose run is
\* longer than the fallback length, so that it has a second start pair and
\* pairs that are no start.
C10_Witness ==
  /\ InteriorChannelBuilt
  /\ pc = "chan_done"
  /\ \E i \in 1..Len(segment_inf) :
        /\ segment_inf[i].longline
        /\ segment_inf[i].length # max_seg_length
        /\ max_seg_length > 1
        /\ num_tracks[i] > max_seg_length


\* ========================================================================
\* Properties of the multiplexer bitstream builder (SpecMux)
\* ========================================================================
\* build_cmos_mux_bitstream has passed lines 64-71 with a data path chosen
CmosPathResolved == pc \in {"cmos_outputs", "cmos_decode", "cmos_return", "mux_done"}
                    /\ mux_model.design_tech = "SPICE_MODEL_DESIGN_CMOS"

\* C3: called with the "use default" marker, the CMOS encoder decodes the
\* input find_mux_default_path_id gives for the declared size: mux_size when
\* the model adds a constant input, the first-input sentinel otherwise.
C3_DefaultPathOfDeclaredSize ==
  (CmosPathResolved /\ path_id = DEFAULT_PATH_ID) =>
     datapath_id = (IF mux_model.add_const_input THEN mux_size
                    ELSE DEFAULT_MUX_PATH_ID)

\* C4: a path_id that is not the marker and is >= mux_size ends the CMOS
\* encoder in the fatal assertion with the request unchanged: it never gets
\* past line 70 and no vector is returned; a path_id in [0, mux_size) never
\* fails that assertion.
C4_OutOfRangePathIsFatal ==
  /\ (/\ mux_model.design_tech = "SPICE_MODEL_DESIGN_CMOS"
      /\ path_id # DEFAULT_PATH_ID
      /\ path_id >= mux_size) =>
        /\ pc \in {"idle", "default_done", "cmos_lookup", "cmos_path", "abort"}
        /\ returned = {}
        /\ cmos_bitstream = <<>>
        /\ (pc = "abort" =>
              /\ fatal \in {"no_mux_graph", "assert_datapath_id"}
              /\ (fatal = "assert_datapath_id" => datapath_id = path_id))
        /\ (pc = "abort" <=> lib_consulted /\ pc # "cmos_path")
  /\ (path_id >= 0 /\ path_id < mux_size) => fatal # "assert_datapath_id"

\* C4 witness: the assertion of line 70 has fired on the request path_id =
\* mux_size of a model with a constant input, which the implemented
\* multiplexer would have as an input.
C4_Witness ==
  /\ pc = "abort"
  /\ fatal = "assert_datapath_id"
  /\ mux_model.add_const_input
  /\ path_id = mux_size

\* C8: build_mux_bitstream returns the CMOS encoder's vector for a CMOS
\* model; for an RRAM model it returns the empty vector, whatever mux_size
\* and path_id are, without aborting and without a look at the library; for
\* any other technology it ends the run and returns nothing.
C8_DispatchOnDesignTech ==
  /\ (mux_model.design_tech = "SPICE_MODEL_DESIGN_CMOS" /\ pc = "mux_done") =>
        /\ returned = {"cmos", "mux"}
        /\ mux_bitstream = cmos_bitstream
  /\ mux_model.design_tech = "SPICE_MODEL_DESIGN_RRAM" =>
        /\ pc \in {"idle", "default_done", "mux_done"}
        /\ ~lib_consulted
        /\ "cmos" \notin returned
        /\ (pc = "mux_done" <=> returned = {"mux"})
        /\ mux_bitstream = <<>>
  /\ mux_model.design_tech = "OTHER" =>
        /\ pc \in {"idle", "default_done", "abort"}
        /\ (pc = "abort" => fatal = "invalid_design_tech")
        /\ ~lib_consulted
        /\ returned = {}

\* C8 witness: an RRAM model has got its empty vector for a path_id beyond
\* the multiplexer's inputs, with no graph in the library.
C8_Witness ==
  /\ mux_model.design_tech = "SPICE_MODEL_DESIGN_RRAM"
  /\ pc = "mux_done"
  /\ returned = {"mux"}
  /\ mux_bitstream = <<>>
  /\ path_id > mux_size + 1
  /\ ~mux_lib.present

\* C9: find_mux_default_path_id returns the size it is given when the model
\* adds a constant input and the first-input sentinel otherwise, whatever the
\* technology, the path and the library are; a constant input and size 4
\* give 4.
C9_DefaultPathId ==
  pc = "default_done" =>
     /\ mux_model.add_const_input => default_path_id = mux_size
     /\ ~mux_model.add_const_input => default_path_id = DEFAULT_MUX_PATH_ID
     /\ (mux_model.add_const_input /\ mux_size = 4) => default_path_id = 4

\* C9 witness: the call on a model with a constant input and size 4 returned
C9_Witness ==
  /\ pc = "default_done"
  /\ mux_model.add_const_input
  /\ mux_size = 4
  /\ default_path_id = 4


\* ========================================================================
\* Properties of build_tileable_unidir_rr_graph (SpecBuild)
\* ========================================================================
\* The census has returned to line 535
CensusReturned == pc \in {"build_alloc", "build_fc_in", "build_fc_out",
                          "build_finish", "build_done"}

\* C6: the node storage is allocated at most once, and exactly once in a run
\* that returns; only after the census has returned; with the sum of the
\* census's per-category counts as its size.  Until then rr_node is null and
\* num_rr_nodes is 0, and from then on num_rr_nodes is that size.
C6_CensusThenAllocateOnce ==
  /\ alloc_count <= 1
  /\ rr_node.allocated <=> (alloc_count = 1)
  /\ rr_node.allocated =>
        /\ CensusReturned
        /\ pc # "build_alloc"
        /\ rr_node.size = num_rr_nodes_per_type[1] + num_rr_nodes_per_type[2]
                          + num_rr_nodes_per_type[3] + num_rr_nodes_per_type[4]
                          + num_rr_nodes_per_type[5] + num_rr_nodes_per_type[6]
                          + num_rr_nodes_per_type[7]
        /\ num_rr_nodes = rr_node.size
  /\ ~rr_node.allocated => (rr_node.size = 0 /\ num_rr_nodes = 0)
  /\ pc = "build_done" => rr_node.allocated

\* C6 witness: the function has returned a graph with node storage of a
\* size to which the last category contributes.
C6_Witness ==
  /\ pc = "build_done"
  /\ rr_node.allocated
  /\ num_rr_nodes_per_type[NUM_RR_TYPES] > 0
  /\ rr_node.size > 1

\* C7: the returned Warnings has the Fc-clipped flag exactly when one of the
\* two Fc computations reported a clipped value.
C7_ClippingIsReported ==
  pc = "build_done" =>
     (Warnings = (IF fc_reports.fc_in \/ fc_reports.fc_out
                    THEN {"FC_CLIPPED"} ELSE {}))


\* ========================================================================
\* Properties of estimate_num_rr_nodes_per_type (SpecCensus)
\* ========================================================================
\* The side facing the fabric of a cell on the outer ring: top row, right
\* column, bottom row, left column, in that order
FacingSide(dev_size, x, y) ==
  IF y = dev_size.y - 1 THEN "BOTTOM"
  ELSE IF x = dev_size.x - 1 THEN "LEFT"
  ELSE IF y = 0 THEN "TOP"
  ELSE IF x = 0 THEN "RIGHT"
  ELSE "NONE"

\* The pin loop has looked at a cell that is the origin of an IO tile, in
\* the local grids and in the global grid alike
IoCellExamined ==
  /\ pc \in {"census_pins", "abort"}
  /\ (pc = "census_pins" => (ix > 0 \/ iy > 0))
  /\ (pc = "abort" => fatal = "io_grid_in_center")
  /\ cell.type = "IO_TYPE"
  /\ cell.offset = 0
  /\ grid_type = "IO_TYPE"

\* C5: an IO origin cell on the outer ring is counted with the pins of the
\* one side that faces the fabric and does not end the run; the census ends
\* the run at an IO cell exactly when the cell is not on the outer ring.
C5_RingIoCellCountsFacingSide ==
  IoCellExamined =>
     LET facing == FacingSide(device_size, cell.x, cell.y) IN
     /\ (pc = "abort") <=> (facing = "NONE")
     /\ pc # "abort" =>
          /\ io_side = facing
          /\ added.opin = Cardinality({p \in TypeDescriptor("IO_TYPE").pinloc :
                             p[2] = facing
                             /\ TypeDescriptor("IO_TYPE").pin_class[p[3] + 1] = "DRIVER"})
          /\ added.ipin = Cardinality({p \in TypeDescriptor("IO_TYPE").pinloc :
                             p[2] = facing
                             /\ TypeDescriptor("IO_TYPE").pin_class[p[3] + 1] = "RECEIVER"})

\* ========================================================================
\* The border override of build_unidir_chan_node_details (SpecAlloc)
\* ========================================================================
\* The track list as lines 213-234 built it, before the switch of line 239
UnoverriddenTracks ==
  AddAllTracks(<<>>, 0, segment_inf, num_tracks, max_seg_length)

\* The switch of line 239 has been reached with a non-zero width
BorderSwitchTaken ==
  /\ caller = "chan"
  /\ chan_width > 0
  /\ \/ pc = "chan_done"
     \/ pc = "abort" /\ fatal = "invalid_side"

CensusReturns(cw) ==
  LET reps == CensusRepresentatives(device_size, cw, segment_inf)
  IN \A r \in DOMAIN reps : reps[r].status = "ok" /\ ~reps[r].div0

\* C12: the X-channel representatives are built with the X-axis width and
\* the Y-channel representatives with the Y-axis width: a census that
\* differs only in the Y-axis width returns the same CHANX total, and one
\* that differs only in the X-axis width returns the same CHANY total.
C12_PerAxisWidth ==
  pc = "census_done" =>
     /\ \A wy \in 0..MaxCensusWidth :
          CensusReturns(<<device_chan_width[1], wy>>) =>
             ChanxNodes(device_size,
                        CensusRepresentatives(device_size, <<device_chan_width[1], wy>>,
                                              segment_inf))
               = num_rr_nodes_per_type[CHANX + 1]
     /\ \A wx \in 0..MaxCensusWidth :
          CensusReturns(<<wx, device_chan_width[2]>>) =>
             ChanyNodes(device_size,
                        CensusRepresentatives(device_size, <<wx, device_chan_width[2]>>,
                                              segment_inf))
               = num_rr_nodes_per_type[CHANY + 1]

\* ========================================================================
\* The pin counts of the census (SpecCensus)
\* ========================================================================
\* The pins of class pin_type a tile type has on the sides in sides_, over
\* all its heights
TilePins(type_name, pin_type, sides_) ==
  LET type == TypeDescriptor(type_name)
  IN Cardinality({p \in type.pinloc :
                    p[2] \in sides_ /\ type.pin_class[p[3] + 1] = pin_type})

\* The pin loop has gone from one cell to the next
CellCounted == pc = "census_pins" /\ pc' = "census_pins" /\ iy' = iy + 1

\* What the cell just examined adds to OPIN and IPIN
OpinAdded == num_rr_nodes_per_type'[OPIN + 1] - num_rr_nodes_per_type[OPIN + 1]

IpinAdded == num_rr_nodes_per_type'[IPIN + 1] - num_rr_nodes_per_type[IPIN + 1]

\* C13: OPIN and IPIN are the sums of the driver and receiver pins over
\* exactly the non-empty cells of offset 0: an empty cell and a non-origin
\* cell add nothing, any other cell adds its pins (all of them, or those of
\* one side for an IO tile); SOURCE = OPIN and SINK = IPIN in the result and
\* every category but CHANX and CHANY of the others is 0.
C13_PinsOfOriginCells ==
  /\ [][CellCounted =>
          IF cell'.type = "EMPTY_TYPE" \/ cell'.offset > 0
            THEN OpinAdded = 0 /\ IpinAdded = 0
          ELSE IF cell'.type = "IO_TYPE"
            THEN \E sd \in PinSides :
                   /\ OpinAdded = TilePins("IO_TYPE", "DRIVER", {sd})
                   /\ IpinAdded = TilePins("IO_TYPE", "RECEIVER", {sd})
          ELSE /\ OpinAdded = TilePins(cell'.type, "DRIVER", PinSides)
               /\ IpinAdded = TilePins(cell'.type, "RECEIVER", PinSides)]_vars
  /\ [](pc \in {"census_chan", "census_done"} =>
          /\ num_rr_nodes_per_type[SOURCE + 1] = num_rr_nodes_per_type[OPIN + 1]
          /\ num_rr_nodes_per_type[SINK + 1] = num_rr_nodes_per_type[IPIN + 1]
          /\ num_rr_nodes_per_type[NUM_RR_TYPES] = 0)

\* ========================================================================
\* Further properties of get_num_tracks_per_seg_type (SpecAlloc)
\* ========================================================================
\* C14: on an empty catalog the allocator makes no access outside its
\* vectors, does not end the run and returns the empty vector, for every W;
\* with W = 0 it returns all zeros on any catalog, the loop body never runs
\* and the undo step does not fire.
C14_EmptyCatalogIsSafe ==
  /\ Len(segment_inf) = 0 =>
        /\ ~oob
        /\ pc \notin {"crashed", "abort"}
        /\ AllocReturned => result = <<>>
  /\ (AllocReturned /\ alloc_width = 0) =>
        /\ ~oob
        /\ assigned = 0
        /\ size = 0
        /\ Len(result) = Len(segment_inf)
        /\ \A i \in 1..Len(result) : result[i] = 0
        /\ ~UndoFires(alloc_width, assigned, size)

\* Every group the allocator can assign has size 1
UnitGroups ==
  \/ ~use_full_seg_groups
  \/ \A i \in 1..Len(segment_inf) : segment_inf[i].length = 1

\* C15: when every group size is 1, the counts returned for a non-empty
\* catalog sum to exactly W, for every W >= 0: the loop stops at
\* assigned = W and the undo step does not fire.
C15_UnitGroupsSumToWidth ==
  (AllocReturned /\ Len(segment_inf) > 0 /\ UnitGroups) =>
     /\ SumSeq(result) = alloc_width
     /\ assigned = alloc_width
     /\ ~UndoFires(alloc_width, assigned, size)
     /\ size = (IF alloc_width = 0 THEN 0 ELSE 1)

\* C15 witness: a return without full groups on two types of which one is
\* longer than 1, both with tracks.
C15_Witness ==
  /\ AllocReturned
  /\ ~use_full_seg_groups
  /\ alloc_width >= 3
  /\ Len(segment_inf) = 2
  /\ segment_inf[1].length > 1
  /\ result[1] > 0
  /\ result[2] > 0
  /\ SumSeq(result) = alloc_width

\* ========================================================================
\* The grid-population loop of build_tileable_unidir_rr_graph (SpecBuild)
\* ========================================================================
\* The cells of the grid: 0 <= x < L_nx + 2, 0 <= y < L_ny + 2
DeviceCells == (0..(L_nx + 1)) \X (0..(L_ny + 1))

\* The loop of lines 509-514 has been left
GridLoopLeft == pc \in {"build_census", "build_alloc", "build_fc_in",
                        "build_fc_out", "build_finish", "build_done"}

\* C16: the grid-population loop indexes no cell outside the grid, visits
\* each cell of the grid exactly once before the census is called, does not
\* end the run, and leaves every cell of the local grids assigned from the
\* input grid.
C16_GridPopulated ==
  /\ ~oob
  /\ pc # "crashed"
  /\ \A k \in 1..Len(visited) : visited[k] \in DeviceCells
  /\ \A k, l \in 1..Len(visited) : visited[k] = visited[l] => k = l
  /\ GridLoopLeft =>
        /\ {visited[k] : k \in 1..Len(visited)} = DeviceCells
        /\ grids_assigned = DeviceCells

\* ========================================================================
\* The channel totals of the census (SpecCensusChannels)
\* ========================================================================
\* The number of start-flagged tracks of a representative channel
Starts(details) == Cardinality({i \in 1..Len(details) : details[i].start = TRUE})

\* C17: for a grid of at least 3 columns and 3 rows, CHANX is
\* (Ydim-1) * (starts(left) + starts(right)) + (Xdim-3) * (Ydim-3) *
\* starts(interior X) and CHANY is (Xdim-1) * (starts(top) + starts(bottom))
\* + (Xdim-3) * (Ydim-3) * starts(interior Y): only tracks flagged start are
\* counted, so no total exceeds the same sum over all tracks.
C17_ChannelNodesFormula ==
  (pc = "census_done" /\ device_size.x >= 3 /\ device_size.y >= 3) =>
     LET Xdim == device_size.x
         Ydim == device_size.y
         d == chan_details
     IN /\ num_rr_nodes_per_type[CHANX + 1] =
             (Ydim - 1) * (Starts(d.left_chanx) + Starts(d.right_chanx))
             + (Xdim - 3) * (Ydim - 3) * Starts(d.core_chanx)
        /\ num_rr_nodes_per_type[CHANY + 1] =
             (Xdim - 1) * (Starts(d.top_chany) + Starts(d.bottom_chany))
             + (Xdim - 3) * (Ydim - 3) * Starts(d.core_chany)
        /\ num_rr_nodes_per_type[CHANX + 1] <=
             (Ydim - 1) * (Len(d.left_chanx) + Len(d.right_chanx))
             + (Xdim - 3) * (Ydim - 3) * Len(d.core_chanx)

\* C17 witness: a census of a grid with interior channel positions whose
\* interior X representative has start tracks and tracks that are no start.
C17_Witness ==
  /\ pc = "census_done"
  /\ device_size.x >= 4
  /\ device_size.y >= 5
  /\ 0 < Starts(chan_details.core_chanx)
  /\ Starts(chan_details.core_chanx) < Len(chan_details.core_chanx)
  /\ Starts(chan_details.left_chanx) > 0
  /\ num_rr_nodes_per_type[CHANX + 1] # num_rr_nodes_per_type[CHANY + 1]

\* ========================================================================
\* The allocator against the documented demand-reduction algorithm
\* (SpecAlloc)
\* ========================================================================
\* The lowest index (1-based) among the types of maximum demand
LowestOfMaxDemand(dem) ==
  CHOOSE i \in 1..Len(dem) :
     /\ \A j \in 1..Len(dem) : dem[j] <= dem[i]
     /\ \A j \in 1..(i - 1) : dem[j] < dem[i]

\* The documented algorithm: assign to the lowest-index type of maximum
\* demand one unit, or length units under full groups, and subtract
\* scale * sum(frequency) from its demand, until assigned >= W
RECURSIVE ReferenceLoop(_, _, _, _, _, _, _)
ReferenceLoop(W, segs, full, dem, res, asg, last) ==
  IF asg >= W THEN [result |-> res, assigned |-> asg, last |-> last]
  ELSE LET i == LowestOfMaxDemand(dem)
           unit == IF full THEN segs[i].length ELSE 1
       IN ReferenceLoop(W, segs, full,
                        [dem EXCEPT ![i] = @ - SegScale(segs) * FreqSum(segs)],
                        [res EXCEPT ![i] = @ + unit],
                        asg + unit, [type |-> i, size |-> unit])

\* Its result: the last assignment is undone if the overshoot exceeds half
\* its size
ReferenceAllocation(W, segs, full) ==
  LET dem0 == [i \in 1..Len(segs) |->
                 IF full THEN (SegScale(segs) \div segs[i].length) * W * segs[i].frequency
                 ELSE SegScale(segs) * W * segs[i].frequency]
      st == ReferenceLoop(W, segs, full, dem0, [i \in 1..Len(segs) |-> 0], 0,
                          [type |-> 1, size |-> 0])
  IN IF 2 * (st.assigned - W) > st.last.size
       THEN [st.result EXCEPT ![st.last.type] = @ - st.last.size]
       ELSE st.result

\* The demands as they were before the last assignment of the loop
DemandBeforeLastAssignment ==
  [demand EXCEPT ![imax + 1] = @ + Reduce(segment_inf)]

\* The allocation the function returns for W = 6, the types {length 2,
\* frequency 1} and {length 4, frequency 1}, and full groups
DocumentedExample ==
  get_num_tracks_per_seg_type(
     6, <<[length |-> 2, frequency |-> 1, longline |-> FALSE],
          [length |-> 4, frequency |-> 1, longline |-> FALSE]>>, TRUE)

\* C18: on a non-empty catalog the allocator returns the vector of the
\* documented demand-reduction algorithm; the type each iteration assigns to
\* is the lowest-index type of maximum demand at that moment, with positive
\* demand, never an index left over from an earlier iteration; W = 6 with
\* the types {length 2, frequency 1}, {length 4, frequency 1} and full groups
\* gives <<2, 4>>.
C18_MatchesDemandReduction ==
  /\ (AllocReturned /\ Len(segment_inf) > 0) =>
        result = ReferenceAllocation(alloc_width, segment_inf, use_full_seg_groups)
  /\ (pc = "alloc_loop" /\ Len(segment_inf) > 0 /\ assigned > 0) =>
        /\ imax + 1 = LowestOfMaxDemand(DemandBeforeLastAssignment)
        /\ DemandBeforeLastAssignment[imax + 1] > 0
  /\ DocumentedExample = <<2, 4>>

\* C18 witness: the loop has just assigned to the first of two types of
\* equal maximum demand, after an iteration that chose the second type.
C18_Witness ==
  /\ pc = "alloc_loop"
  /\ Len(segment_inf) = 2
  /\ assigned > size
  /\ imax = 0
  /\ DemandBeforeLastAssignment[1] = DemandBeforeLastAssignment[2]
  /\ result[2] > 0

\* ========================================================================
\* The input handed to the MuxGraph (SpecMux)
\* ========================================================================
\* C19: whenever build_cmos_mux_bitstream reaches the decode step of line
\* 77, datapath_id is an input of the implemented multiplexer: it is below
\* the implemented size, which is mux_size plus one if the model adds a
\* constant input.
C19_DecodedInputIsValid ==
  pc = "cmos_decode" =>
     /\ implemented_mux_size =
          mux_size + (IF mux_model.add_const_input THEN 1 ELSE 0)
     /\ datapath_id >= 0
     /\ datapath_id < implemented_mux_size

\* ========================================================================
\* Conservation of the weighted demand (SpecAlloc)
\* ========================================================================
\* The sum over the types of groupSize * demand
RECURSIVE WeightedDemand(_, _, _)
WeightedDemand(segs, dem, full) ==
  IF segs = <<>> THEN 0
  ELSE (IF full THEN Head(segs).length ELSE 1) * Head(dem)
       + WeightedDemand(Tail(segs), Tail(dem), full)

\* C20: throughout the assignment loop the sum of groupSize_i * demand_i
\* equals scale * sum(frequency) * (W - assigned); hence at the start of
\* every iteration some type has a strictly positive demand, and the count
\* of the type assigned last is at least size before the undo step, so that
\* no count goes below 0.
C20_WeightedDemandConserved ==
  (pc \in {"alloc_loop", "alloc_done", "chan_tracks"} /\ Len(segment_inf) > 0) =>
     /\ WeightedDemand(segment_inf, demand, use_full_seg_groups) =
          SegScale(segment_inf) * FreqSum(segment_inf) * (alloc_width - assigned)
     /\ (pc = "alloc_loop" /\ assigned < alloc_width) =>
          \E i \in 1..Len(demand) : demand[i] > 0
     /\ (pc = "alloc_loop" /\ assigned > 0) => result[imax + 1] >= size
     /\ \A i \in 1..Len(result) : result[i] >= 0

\* C20 witness: the loop is about to run again with a demand that has gone
\* negative; the last assignment of the returned run was undone.
C20_Witness ==
  /\ pc = "alloc_loop"
  /\ Len(segment_inf) = 2
  /\ use_full_seg_groups
  /\ 0 < assigned
  /\ assigned < alloc_width
  /\ \E i \in 1..Len(demand) : demand[i] < 0

====
